---- MODULE Spec2Model ----
(***************************************************************************)
(* A model of blockchain.py: Block (constructor, calculate_hash,           *)
(* mine_the_block) and Blockchain (constructor, get_latest_block,          *)
(* add_block, is_chain_valid).                                             *)
(*                                                                         *)
(* Block objects live in a heap and are named by their position in it, so  *)
(* that one object can be reached through several references (the chain    *)
(* list holds references, and add_block accepts any reference).            *)
(*                                                                         *)
(* SHA-256 is modelled as a lazily sampled injective oracle: the first     *)
(* time a message is hashed its digest gets a number of leading '0'        *)
(* characters chosen nondeterministically; later queries of the same       *)
(* message return the same digest.  A digest carries the message it is the *)
(* digest of, so that distinct messages have distinct digests: collisions  *)
(* are excluded, as the specification assumes collision resistance.        *)
(*                                                                         *)
(* Positions of the chain are 0-based in the code and 1-based in the       *)
(* sequence `chain`: code position i is chain[i + 1].                      *)
(***************************************************************************)
EXTENDS Integers, Sequences, FiniteSets, TLC

VARIABLES heap, chain, difficulty, oracle, call, tamper

vars == <<heap, chain, difficulty, oracle, call, tamper>>

----------------------------------------------------------------------------
(* Bounds of the model *)

\* Block objects ever constructed, genesis included.
MaxBlocks == 3
\* Length of the chain list, genesis included.
MaxChain == 3
\* Largest nonce the search loop is followed to.
MaxNonce == 1
\* Threads that may call into the chain.
NumThreads == 2

----------------------------------------------------------------------------
(* Program constants *)

\* Blockchain.__init__: self.difficulty = 4
Difficulty == 4
\* hashlib.sha256(...).hexdigest() is 64 hexadecimal characters long
DigestLen == 64
\* create_genesis_block: Block(0, "Block genesis", "0")
GenesisBlknum == 0
\* the payload "Block genesis", as a value distinct from the callers' payloads
GenesisInfo == 0
\* __main__ adds three blocks
DriverBlocks == 3

----------------------------------------------------------------------------
(* Values *)

Threads == 1..NumThreads
\* The thread of the single-threaded specifications.
MainThread == CHOOSE t \in Threads : \A u \in Threads : t <= u

\* A digest is abstracted to the number of its leading '0' characters and
\* the message it was computed from, which tells it from every other digest.
\* The strings "0" and "" that callers pass as previous hash are values of
\* the same shape that are the digest of no message.
GenesisPrevash == [zeros |-> 1, of |-> <<0>>]
EmptyStr == [zeros |-> 0, of |-> <<>>]

\* Leading-zero counts a sampled digest may have: none (short of every
\* positive difficulty) or exactly the chain's difficulty.
LeadChoices == {0, Difficulty}

\* Block numbers, payloads and clock readings callers construct Blocks with.
Blknums == {0, 1}
Payloads == {1}
Times == {1}
\* Values a caller overwrites a payload with.
InfoValues == Payloads \cup {2}
\* Difficulties of direct mine_the_block calls: the trivial one, the chain's,
\* and one no sampled digest meets.
MineDifficulties == {0, Difficulty, Difficulty + 1}
\* Negative difficulties: one that leaves characters in the slice hash[:d]
\* and one that leaves none.
NegativeDifficulties == {0 - 1, 0 - DigestLen}

\* The state of a thread's current call.  n0 is the nonce the block had when
\* mine_the_block was entered and checks counts the evaluations of the loop
\* condition; result and at hold what is_chain_valid returned and the code
\* position i at which its loop stopped; len0 is the length the chain had
\* when add_block read get_latest_block().
Idle ==
    [op |-> "none", pc |-> "idle", blk |-> 0, d |-> 0, n0 |-> 0, checks |-> 0,
     result |-> TRUE, at |-> 0, len0 |-> 0]

NoTamper == [kind |-> "none", pos |-> 0]

----------------------------------------------------------------------------
(* Block *)

\* The message calculate_hash digests: json.dumps of the five fields with
\* sort_keys=True, which is one string per tuple of field values.
Fields(b) == <<b.blknum, b.timestamp, b.info, b.prevash, b.minework>>

\* hashlib.sha256(m).hexdigest() under the oracle orc; z is the number of
\* leading zeros the digest gets when m was never hashed before.
Sha256(orc, m, z) ==
    IF m \in DOMAIN orc
    THEN orc[m]
    ELSE [zeros |-> z, of |-> m]

\* The oracle after m was hashed to h.
Memo(orc, m, h) == [x \in DOMAIN orc \cup {m} |-> IF x = m THEN h ELSE orc[x]]

calculate_hash(orc, b, z) == Sha256(orc, Fields(b), z)

\* Block.__init__ up to the assignment of self.hash.
BlockFields(blknum, info, prevash, ts) ==
    [blknum |-> blknum, timestamp |-> ts, info |-> info, prevash |-> prevash,
     minework |-> 0, hash |-> EmptyStr]

\* Block.__init__
BlockInit(orc, blknum, info, prevash, ts, z) ==
    LET b == BlockFields(blknum, info, prevash, ts)
    IN  [b EXCEPT !.hash = calculate_hash(orc, b, z)]

\* Mutant: the target test accepts one leading zero too few.
TargetMetOneShort(h, d) ==
    IF d >= 0
    THEN d <= DigestLen /\ h.zeros >= d - 1
    ELSE DigestLen + d <= 0

\* Mutant: the target test wants more than d leading zeros.
TargetMetStrict(h, d) ==
    IF d >= 0
    THEN d <= DigestLen /\ h.zeros > d
    ELSE DigestLen + d <= 0

\* self.hash[:difficulty] == "0" * difficulty, for a hash of DigestLen
\* characters.  A slice with d >= 0 is the first min(d, DigestLen)
\* characters; a slice with d < 0 drops the last -d characters, and
\* "0" * d is then the empty string.
TargetMet(h, d) ==
    IF d >= 0
    THEN d <= DigestLen /\ h.zeros >= d
    ELSE DigestLen + d <= 0

----------------------------------------------------------------------------
(* Blockchain *)

\* get_latest_block: self.chain[-1]
get_latest_block == heap[chain[Len(chain)]]

\* The walk of is_chain_valid from code position i: the result and the
\* position at which it returned (len(chain) when the loop ran out).
\* A message that was never hashed has a digest no stored hash equals.
RECURSIVE ValidFrom(_)
ValidFrom(i) ==
    IF i >= Len(chain)
    THEN [result |-> TRUE, at |-> Len(chain)]
    ELSE LET current == heap[chain[i + 1]]
             previous == heap[chain[i]]
         IN  IF current.hash # calculate_hash(oracle, current, 0)
             THEN [result |-> FALSE, at |-> i]
             ELSE IF current.prevash # previous.hash
                  THEN [result |-> FALSE, at |-> i]
                  ELSE ValidFrom(i + 1)

\* Mutant: the walk without the comparison of hash and calculate_hash().
RECURSIVE LinkedFrom(_)
LinkedFrom(i) ==
    IF i >= Len(chain)
    THEN [result |-> TRUE, at |-> Len(chain)]
    ELSE IF heap[chain[i + 1]].prevash # heap[chain[i]].hash
         THEN [result |-> FALSE, at |-> i]
         ELSE LinkedFrom(i + 1)

is_chain_valid_linkage_only == LinkedFrom(1)

\* Mutant: the walk without the comparison of prevash and previous.hash.
RECURSIVE HashedFrom(_)
HashedFrom(i) ==
    IF i >= Len(chain)
    THEN [result |-> TRUE, at |-> Len(chain)]
    ELSE IF heap[chain[i + 1]].hash # calculate_hash(oracle, heap[chain[i + 1]], 0)
         THEN [result |-> FALSE, at |-> i]
         ELSE HashedFrom(i + 1)

is_chain_valid_hash_only == HashedFrom(1)

\* Mutant: the walk starts at range(2, len(chain)).
is_chain_valid_from_two == ValidFrom(2)

\* Mutant: the walk also compares the genesis block's stored hash with the
\* hash of its fields.
is_chain_valid_genesis_checked ==
    IF heap[chain[1]].hash # calculate_hash(oracle, heap[chain[1]], 0)
    THEN [result |-> FALSE, at |-> 0]
    ELSE ValidFrom(1)

is_chain_valid == ValidFrom(1)

----------------------------------------------------------------------------
(* Initial state: Blockchain() *)

Init ==
    \E ts \in Times, z \in LeadChoices :
        LET g == BlockInit(<<>>, GenesisBlknum, GenesisInfo, GenesisPrevash, ts, z)
        IN  /\ heap = <<g>>
            /\ chain = <<1>>
            /\ difficulty = Difficulty
            /\ oracle = Memo(<<>>, Fields(g), g.hash)
            /\ call = [t \in Threads |-> Idle]
            /\ tamper = NoTamper

----------------------------------------------------------------------------
(* Actions *)

\* The previous-hash arguments callers pass to Block(...): the placeholder ""
\* or the hash of the block that is last in the chain.
Placeholders == {EmptyStr, get_latest_block.hash}

\* Block(blknum, info, prevash), by a caller
Construct(t, blknum, info, prevash) ==
    /\ call[t].pc = "idle"
    /\ tamper = NoTamper
    /\ \E ts \in Times, z \in LeadChoices :
         LET b == BlockInit(oracle, blknum, info, prevash, ts, z)
         IN  /\ heap' = Append(heap, b)
             /\ oracle' = Memo(oracle, Fields(b), b.hash)
    /\ UNCHANGED <<chain, difficulty, call, tamper>>

\* Block(blknum, info, prevash), while the model has room for another object
NewBlock(t, blknum, info, prevash) ==
    /\ Len(heap) < MaxBlocks
    /\ Construct(t, blknum, info, prevash)

\* mine_the_block(d) entered by operation op on block c, whose nonce is n0
EnterMine(op, c, d, n0) ==
    [Idle EXCEPT !.op = op, !.pc = "mine", !.blk = c, !.d = d, !.n0 = n0]

\* add_block, line 66: new_block.prevash = self.get_latest_block().hash,
\* and the call of mine_the_block(self.difficulty)
LinkAndMine(t, c) ==
    /\ call[t].pc = "idle"
    /\ tamper = NoTamper
    /\ heap' = [heap EXCEPT ![c].prevash = get_latest_block.hash]
    /\ call' = [call EXCEPT ![t] =
                  [EnterMine("add_block", c, difficulty, heap[c].minework)
                      EXCEPT !.len0 = Len(chain)]]
    /\ UNCHANGED <<chain, difficulty, oracle, tamper>>

\* add_block entered, while the model has room for another chain position
AddBlockLink(t, c) ==
    /\ Len(chain) < MaxChain
    /\ LinkAndMine(t, c)

\* mine_the_block called directly on block c with difficulty d
MineCall(t, c, d) ==
    /\ call[t].pc = "idle"
    /\ tamper = NoTamper
    /\ call' = [call EXCEPT ![t] = EnterMine("mine", c, d, heap[c].minework)]
    /\ UNCHANGED <<heap, chain, difficulty, oracle, tamper>>

\* Mutant: an iteration that also takes a new timestamp.
MineStepRestamp(t) ==
    /\ call[t].pc = "mine"
    /\ ~TargetMet(heap[call[t].blk].hash, call[t].d)
    /\ heap[call[t].blk].minework < MaxNonce
    /\ \E z \in LeadChoices :
         LET c == call[t].blk
             b == [heap[c] EXCEPT !.minework = @ + 1, !.timestamp = @ + 1]
             h == calculate_hash(oracle, b, z)
         IN  /\ heap' = [heap EXCEPT ![c] = [b EXCEPT !.hash = h]]
             /\ oracle' = Memo(oracle, Fields(b), h)
    /\ call' = [call EXCEPT ![t].checks = @ + 1]
    /\ UNCHANGED <<chain, difficulty, tamper>>

\* Mutant: the loop body runs once before the condition is first tested.
MineStepDoWhile(t) ==
    /\ call[t].pc = "mine"
    /\ call[t].checks = 0 \/ ~TargetMet(heap[call[t].blk].hash, call[t].d)
    /\ heap[call[t].blk].minework < MaxNonce
    /\ \E z \in LeadChoices :
         LET c == call[t].blk
             b == [heap[c] EXCEPT !.minework = @ + 1]
             h == calculate_hash(oracle, b, z)
         IN  /\ heap' = [heap EXCEPT ![c] = [b EXCEPT !.hash = h]]
             /\ oracle' = Memo(oracle, Fields(b), h)
    /\ call' = [call EXCEPT ![t].checks = @ + 1]
    /\ UNCHANGED <<chain, difficulty, tamper>>

\* mine_the_block, one iteration: the loop condition holds, the nonce is
\* incremented and the hash recalculated
MineStep(t) ==
    /\ call[t].pc = "mine"
    /\ ~TargetMet(heap[call[t].blk].hash, call[t].d)
    /\ heap[call[t].blk].minework < MaxNonce
    /\ \E z \in LeadChoices :
         LET c == call[t].blk
             b == [heap[c] EXCEPT !.minework = @ + 1]
             h == calculate_hash(oracle, b, z)
         IN  /\ heap' = [heap EXCEPT ![c] = [b EXCEPT !.hash = h]]
             /\ oracle' = Memo(oracle, Fields(b), h)
    /\ call' = [call EXCEPT ![t].checks = @ + 1]
    /\ UNCHANGED <<chain, difficulty, tamper>>

\* mine_the_block, loop exit: the loop condition fails, the message is
\* printed and the method returns
MineExit(t) ==
    /\ call[t].pc = "mine"
    /\ TargetMet(heap[call[t].blk].hash, call[t].d)
    /\ call' = [call EXCEPT ![t].checks = @ + 1,
                            ![t].pc = IF call[t].op = "add_block"
                                      THEN "append" ELSE "returned"]
    /\ UNCHANGED <<heap, chain, difficulty, oracle, tamper>>

\* Mutant: the append assigns prevash again from the block that is last
\* at that moment.
AddBlockAppendRelinked(t) ==
    /\ call[t].pc = "append"
    /\ heap' = [heap EXCEPT ![call[t].blk].prevash = get_latest_block.hash]
    /\ chain' = Append(chain, call[t].blk)
    /\ call' = [call EXCEPT ![t] = Idle]
    /\ UNCHANGED <<difficulty, oracle, tamper>>

\* add_block, line 70: self.chain.append(new_block), and the return
AddBlockAppend(t) ==
    /\ call[t].pc = "append"
    /\ chain' = Append(chain, call[t].blk)
    /\ call' = [call EXCEPT ![t] = Idle]
    /\ UNCHANGED <<heap, difficulty, oracle, tamper>>

\* Mutant: a validation that assigns the recomputed hash to each block.
IsChainValidCallAssigning(t) ==
    /\ call[t].pc = "idle"
    /\ call' = [call EXCEPT ![t] =
                  [Idle EXCEPT !.op = "is_chain_valid", !.pc = "returned",
                               !.result = is_chain_valid.result,
                               !.at = is_chain_valid.at]]
    /\ heap' = [o \in DOMAIN heap |->
                  [heap[o] EXCEPT !.hash = calculate_hash(oracle, heap[o], 0)]]
    /\ UNCHANGED <<chain, difficulty, oracle, tamper>>

\* is_chain_valid(), run to its return statement
IsChainValidCall(t) ==
    /\ call[t].pc = "idle"
    /\ call' = [call EXCEPT ![t] =
                  [Idle EXCEPT !.op = "is_chain_valid", !.pc = "returned",
                               !.result = is_chain_valid.result,
                               !.at = is_chain_valid.at]]
    /\ UNCHANGED <<heap, chain, difficulty, oracle, tamper>>

\* The caller takes the value a call returned
Return(t) ==
    /\ call[t].pc = "returned"
    /\ call' = [call EXCEPT ![t] = Idle]
    /\ UNCHANGED <<heap, chain, difficulty, oracle, tamper>>

\* A caller overwrites one field of the block at code position p, once,
\* between calls: block.info = v
TamperInfo(t, p, v) ==
    /\ call[t].pc = "idle"
    /\ tamper = NoTamper
    /\ v # heap[chain[p + 1]].info
    /\ heap' = [heap EXCEPT ![chain[p + 1]].info = v]
    /\ tamper' = [kind |-> "info", pos |-> p]
    /\ UNCHANGED <<chain, difficulty, oracle, call>>

\* block.prevash = v
TamperPrevash(t, p, v) ==
    /\ call[t].pc = "idle"
    /\ tamper = NoTamper
    /\ v # heap[chain[p + 1]].prevash
    /\ heap' = [heap EXCEPT ![chain[p + 1]].prevash = v]
    /\ tamper' = [kind |-> "prevash", pos |-> p]
    /\ UNCHANGED <<chain, difficulty, oracle, call>>

\* block.minework = v
TamperMinework(t, p, v) ==
    /\ call[t].pc = "idle"
    /\ tamper = NoTamper
    /\ v # heap[chain[p + 1]].minework
    /\ heap' = [heap EXCEPT ![chain[p + 1]].minework = v]
    /\ tamper' = [kind |-> "minework", pos |-> p]
    /\ UNCHANGED <<chain, difficulty, oracle, call>>

\* block.timestamp = v
TamperTimestamp(t, p, v) ==
    /\ call[t].pc = "idle"
    /\ tamper = NoTamper
    /\ v # heap[chain[p + 1]].timestamp
    /\ heap' = [heap EXCEPT ![chain[p + 1]].timestamp = v]
    /\ tamper' = [kind |-> "timestamp", pos |-> p]
    /\ UNCHANGED <<chain, difficulty, oracle, call>>

\* block.info = v; block.minework = n; block.hash = block.calculate_hash():
\* a caller rewrites the payload of the block at code position p and stores
\* the hash of the new fields, recomputed (n the old nonce) or found by a
\* new search (any n).
TamperRehash(t, p, v, n) ==
    /\ call[t].pc = "idle"
    /\ tamper = NoTamper
    /\ v # heap[chain[p + 1]].info
    /\ \E z \in LeadChoices :
         LET c == chain[p + 1]
             b == [heap[c] EXCEPT !.info = v, !.minework = n]
             h == calculate_hash(oracle, b, z)
         IN  /\ heap' = [heap EXCEPT ![c] = [b EXCEPT !.hash = h]]
             /\ oracle' = Memo(oracle, Fields(b), h)
    /\ tamper' = [kind |-> "rehash", pos |-> p]
    /\ UNCHANGED <<chain, difficulty, call>>

\* mine_the_block(d) called again on the block and with the difficulty of
\* the call that just returned
MineAgain(t) ==
    /\ call[t].pc = "returned"
    /\ call[t].op \in {"mine", "remine"}
    /\ call' = [call EXCEPT ![t] =
                  EnterMine("remine", call[t].blk, call[t].d,
                            heap[call[t].blk].minework)]
    /\ UNCHANGED <<heap, chain, difficulty, oracle, tamper>>

\* The values a caller may write into a nonce or a timestamp field
NonceValues == {0, 1}
TimeValues == Times \cup {2}

\* The values a caller may write into a previous-hash field
PrevashValues == {EmptyStr} \cup {heap[o].hash : o \in 1..Len(heap)}

----------------------------------------------------------------------------
(* Specifications *)

\* One thread; Block construction, add_block and is_chain_valid only.
ApiStep(t) ==
    \/ \E n \in Blknums, v \in Payloads, p \in Placeholders : NewBlock(t, n, v, p)
    \/ \E c \in 1..Len(heap) : AddBlockLink(t, c)
    \/ MineStep(t)
    \/ MineExit(t)
    \/ AddBlockAppend(t)
    \/ IsChainValidCall(t)
    \/ Return(t)

Next == ApiStep(MainThread)

Spec == Init /\ [][Next]_vars

\* Blocks constructed as the driver constructs them, Block(n, payload, ""),
\* added once each, and direct calls of mine_the_block on any block.
NextMine ==
    \/ \E v \in Payloads : NewBlock(MainThread, Len(heap), v, EmptyStr)
    \/ \E c \in 1..Len(heap) :
         /\ \A i \in 1..Len(chain) : chain[i] # c
         /\ AddBlockLink(MainThread, c)
    \/ MineStep(MainThread)
    \/ MineExit(MainThread)
    \/ AddBlockAppend(MainThread)
    \/ Return(MainThread)
    \/ \E c \in 1..Len(heap), d \in MineDifficulties : MineCall(MainThread, c, d)

SpecMine == Init /\ [][NextMine]_vars

\* Blocks numbered as the driver numbers them, and one field of one block of
\* the chain overwritten once.
NextTamper ==
    \/ \E v \in Payloads, p \in Placeholders :
         NewBlock(MainThread, Len(heap), v, p)
    \/ \E c \in 1..Len(heap) : AddBlockLink(MainThread, c)
    \/ MineStep(MainThread)
    \/ MineExit(MainThread)
    \/ AddBlockAppend(MainThread)
    \/ IsChainValidCall(MainThread)
    \/ Return(MainThread)
    \/ \E p \in 0..(Len(chain) - 1), v \in InfoValues :
         TamperInfo(MainThread, p, v)
    \/ \E p \in 0..(Len(chain) - 1), v \in PrevashValues :
         TamperPrevash(MainThread, p, v)

SpecTamper == Init /\ [][NextTamper]_vars

\* The driver, __main__: three times add_block(Block(n, payload, "")), then
\* is_chain_valid().
DriverConstruct(t) ==
    /\ Len(heap) = Len(chain)
    /\ Len(chain) <= DriverBlocks
    /\ \E v \in Payloads : Construct(t, Len(heap), v, EmptyStr)

DriverAddBlock(t) ==
    /\ Len(heap) = Len(chain) + 1
    /\ LinkAndMine(t, Len(heap))

DriverIsChainValid(t) ==
    /\ Len(chain) = DriverBlocks + 1
    /\ IsChainValidCall(t)

NextDriver ==
    \/ DriverConstruct(MainThread)
    \/ DriverAddBlock(MainThread)
    \/ MineStep(MainThread)
    \/ MineExit(MainThread)
    \/ AddBlockAppend(MainThread)
    \/ DriverIsChainValid(MainThread)
    \/ Return(MainThread)

SpecDriver == Init /\ [][NextDriver]_vars

\* Blocks constructed as the driver constructs them and direct calls of
\* mine_the_block with a negative difficulty.
NextNegative ==
    \/ \E v \in Payloads : NewBlock(MainThread, Len(heap), v, EmptyStr)
    \/ \E c \in 1..Len(heap), d \in NegativeDifficulties :
         MineCall(MainThread, c, d)
    \/ MineStep(MainThread)
    \/ MineExit(MainThread)
    \/ Return(MainThread)

SpecNegative == Init /\ [][NextNegative]_vars


\* Chains built through add_block, and one field of the genesis block
\* overwritten once, its stored hash left as it was.
NextGenesis ==
    \/ \E v \in Payloads, p \in Placeholders :
         NewBlock(MainThread, Len(heap), v, p)
    \/ \E c \in 1..Len(heap) : AddBlockLink(MainThread, c)
    \/ MineStep(MainThread)
    \/ MineExit(MainThread)
    \/ AddBlockAppend(MainThread)
    \/ IsChainValidCall(MainThread)
    \/ Return(MainThread)
    \/ \E v \in InfoValues : TamperInfo(MainThread, 0, v)
    \/ \E v \in PrevashValues : TamperPrevash(MainThread, 0, v)
    \/ \E v \in NonceValues : TamperMinework(MainThread, 0, v)
    \/ \E v \in TimeValues : TamperTimestamp(MainThread, 0, v)

SpecGenesis == Init /\ [][NextGenesis]_vars

\* Chains built through add_block, and the payload of one block that is
\* neither the genesis block nor the last block rewritten once together
\* with its hash.
NextRehash ==
    \/ \E v \in Payloads, p \in Placeholders :
         NewBlock(MainThread, Len(heap), v, p)
    \/ \E c \in 1..Len(heap) : AddBlockLink(MainThread, c)
    \/ MineStep(MainThread)
    \/ MineExit(MainThread)
    \/ AddBlockAppend(MainThread)
    \/ IsChainValidCall(MainThread)
    \/ Return(MainThread)
    \/ \E p \in 1..(Len(chain) - 2), v \in InfoValues, n \in NonceValues :
         TamperRehash(MainThread, p, v, n)

SpecRehash == Init /\ [][NextRehash]_vars

\* The calls of SpecMine, and mine_the_block called again right after a
\* call returned.
NextRemine ==
    \/ NextMine
    \/ MineAgain(MainThread)

SpecRemine == Init /\ [][NextRemine]_vars

\* Several threads share one Blockchain; each constructs blocks as the
\* driver does and calls add_block on a block that is neither in the chain
\* nor the argument of another thread's call.  Threads are switched between
\* the statements of add_block and between the iterations of the search.
ConcAddBlock(t, c) ==
    /\ \A i \in 1..Len(chain) : chain[i] # c
    /\ \A u \in Threads : call[u].blk # c
    /\ LinkAndMine(t, c)

NextConc ==
    \E t \in Threads :
        \/ \E v \in Payloads : NewBlock(t, Len(heap), v, EmptyStr)
        \/ \E c \in 1..Len(heap) : ConcAddBlock(t, c)
        \/ MineStep(t)
        \/ MineExit(t)
        \/ AddBlockAppend(t)

SpecConc == Init /\ [][NextConc]_vars

----------------------------------------------------------------------------
(* Vocabulary of the claims *)

\* The block at code position i of the chain.
BlockAt(i) == heap[chain[i + 1]]

\* Code positions of the chain after genesis.
Successors == 1..(Len(chain) - 1)

\* b.hash == b.calculate_hash()
HashConsistent(b) == b.hash = calculate_hash(oracle, b, 0)

\* chain[i].prevash == chain[i-1].hash
Linked(i) == BlockAt(i).prevash = BlockAt(i - 1).hash

\* The first d characters of digest h are all '0'.
LeadingZeros(h, d) == d <= DigestLen /\ h.zeros >= d

\* Thread t holds the value is_chain_valid() just returned.
ValidReturned(t) == call[t].op = "is_chain_valid" /\ call[t].pc = "returned"

\* No call is in progress.
Quiescent == \A t \in Threads : call[t].pc = "idle"

----------------------------------------------------------------------------
(* C1 *)

\* C1: in a chain built by completed add_block calls alone, is_chain_valid()
\* returns True.
C1_AddOnlyChainIsValid ==
    \A t \in Threads : ValidReturned(t) => call[t].result = TRUE

----------------------------------------------------------------------------
(* C2 *)

\* C2: whenever no call is in progress, every block of the chain, genesis
\* included, has hash == calculate_hash() over its current fields.
C2_HashConsistency ==
    Quiescent => \A i \in 0..(Len(chain) - 1) : HashConsistent(BlockAt(i))

----------------------------------------------------------------------------
(* C3 *)

\* C3: in every state reached by add_block calls alone, every block after
\* genesis stores the hash of the block before it.
C3_ChainLinkage == \A i \in Successors : Linked(i)

----------------------------------------------------------------------------
(* C4 *)

\* C4: once the payload of a block after genesis was overwritten with a
\* different value, its hash and nonce left as they were, is_chain_valid()
\* returns False.
C4_PayloadTamperDetected ==
    \A t \in Threads :
        (ValidReturned(t) /\ tamper.kind = "info" /\ tamper.pos >= 1)
            => call[t].result = FALSE

\* A chain of three distinct blocks whose middle block had its payload overwritten,
\* every other check of the walk passing, was reported invalid at that block.
C4_Witness ==
    \E t \in Threads :
        /\ ValidReturned(t)
        /\ tamper = [kind |-> "info", pos |-> 1]
        /\ chain = <<1, 2, 3>>
        /\ \A i \in Successors : Linked(i)
        /\ HashConsistent(BlockAt(2))
        /\ call[t].result = FALSE
        /\ call[t].at = 1

----------------------------------------------------------------------------
(* C5 *)

\* C5 as claimed: once the stored prevash of any block of the chain, genesis
\* not excluded, was overwritten with a different value, is_chain_valid()
\* returns False.
C5_PrevashTamperDetected ==
    \A t \in Threads :
        (ValidReturned(t) /\ tamper.kind = "prevash") => call[t].result = FALSE

\* C5 as amended: once the stored prevash of a block after genesis was
\* overwritten with a different value, is_chain_valid() returns False.
C5_SuccessorPrevashTamperDetected ==
    \A t \in Threads :
        (ValidReturned(t) /\ tamper.kind = "prevash" /\ tamper.pos >= 1)
            => call[t].result = FALSE

\* A chain of three distinct blocks whose last block had its prevash overwritten, the
\* blocks before it passing both checks, was reported invalid at that block.
C5_Witness ==
    \E t \in Threads :
        /\ ValidReturned(t)
        /\ tamper = [kind |-> "prevash", pos |-> 2]
        /\ chain = <<1, 2, 3>>
        /\ Linked(1)
        /\ HashConsistent(BlockAt(1))
        /\ call[t].result = FALSE
        /\ call[t].at = 2

----------------------------------------------------------------------------
(* C6 *)

\* C6: when mine_the_block(d) has returned, d >= 0, the first d characters of
\* the block's stored hash are '0'; so the block add_block is about to append
\* has a hash with `difficulty` leading zeros.
C6_MinedHashMeetsTarget ==
    \A t \in Threads :
        (call[t].pc \in {"append", "returned"} /\ call[t].op \in {"add_block", "mine"}
            /\ call[t].d >= 0)
            => LeadingZeros(heap[call[t].blk].hash, call[t].d)

\* A search that had to iterate returned with a positive difficulty met.
C6_Witness ==
    \E t \in Threads :
        /\ call[t].pc \in {"append", "returned"}
        /\ call[t].op \in {"add_block", "mine"}
        /\ call[t].d = Difficulty
        /\ call[t].checks >= 2
        /\ heap[call[t].blk].minework > call[t].n0

----------------------------------------------------------------------------
(* C7 *)

\* C7: mine_the_block(0) returns after exactly one evaluation of the loop
\* condition and leaves the nonce as it was at the call.
C7_ZeroDifficultyImmediate ==
    \A t \in Threads :
        (call[t].op = "mine" /\ call[t].pc = "returned" /\ call[t].d = 0)
            => (call[t].checks = 1 /\ heap[call[t].blk].minework = call[t].n0)

\* mine_the_block(0) returned on a block whose hash has no leading zero.
C7_Witness ==
    \E t \in Threads :
        /\ call[t].op = "mine"
        /\ call[t].pc = "returned"
        /\ call[t].d = 0
        /\ heap[call[t].blk].hash.zeros = 0

----------------------------------------------------------------------------
(* C8 *)

\* C8: no step of add_block, whatever block the caller passes, removes,
\* reorders or changes a field of a block that is already in the chain.
C8_AppendOnlyHistory ==
    [][ /\ Len(chain') >= Len(chain)
        /\ \A i \in 1..Len(chain) :
             /\ chain'[i] = chain[i]
             /\ heap'[chain[i]] = heap[chain[i]] ]_vars

----------------------------------------------------------------------------
(* C9 *)

\* Both checks of is_chain_valid pass at code position i.
ChecksPass(i) == HashConsistent(BlockAt(i)) /\ Linked(i)

\* C9: is_chain_valid() returns True exactly when both checks pass at every
\* position after genesis; it returns False at the smallest position where
\* one fails; a chain of genesis alone is valid.
C9_ValidationResult ==
    \A t \in Threads :
        ValidReturned(t) =>
            /\ call[t].result = (\A i \in Successors : ChecksPass(i))
            /\ call[t].result = FALSE =>
                 /\ call[t].at \in Successors
                 /\ ~ChecksPass(call[t].at)
                 /\ \A i \in Successors : i < call[t].at => ChecksPass(i)
            /\ Len(chain) = 1 => call[t].result = TRUE

\* In a chain of three distinct blocks the walk passed position 1 and
\* returned False at position 2.
C9_Witness ==
    \E t \in Threads :
        /\ ValidReturned(t)
        /\ chain = <<1, 2, 3>>
        /\ call[t].result = FALSE
        /\ call[t].at = 2
        /\ ChecksPass(1)

----------------------------------------------------------------------------
(* C10 *)

\* C10: the block at code position i of the chain has blknum == i.
C10_IndexEqualsPosition ==
    \A i \in 0..(Len(chain) - 1) : BlockAt(i).blknum = i

----------------------------------------------------------------------------
(* C11 *)

\* C11: after the driver added three blocks, the chain holds 4 blocks,
\* is_chain_valid() returns True, and the stored hash of each block of the
\* chain, genesis included, begins with `difficulty` '0' characters.
C11_EndToEnd ==
    \A t \in Threads :
        ValidReturned(t) =>
            /\ Len(chain) = DriverBlocks + 1
            /\ call[t].result = TRUE
            /\ \A i \in 0..(Len(chain) - 1) : LeadingZeros(BlockAt(i).hash, difficulty)

----------------------------------------------------------------------------
(* C12 *)

----------------------------------------------------------------------------
(* C13 *)

\* C13: a call of mine_the_block with a negative difficulty ends in an error
\* at the invocation: the search is never started and the block's nonce and
\* hash stay as they were.
C13_NegativeDifficultyFailsFast ==
    \A t \in Threads :
        (call[t].op = "mine" /\ call[t].d < 0) =>
            /\ call[t].pc = "raised"
            /\ call[t].checks = 0
            /\ heap[call[t].blk].minework = call[t].n0

----------------------------------------------------------------------------
(* C14 *)

\* Block b with nonce n.
WithNonce(b, n) == [b EXCEPT !.minework = n]

\* C14: when mine_the_block(d) has returned on a block whose nonce was n0,
\* the stored hash is the digest of the block's current fields, every nonce
\* from n0 to the final one was hashed with those fields, and none before
\* the final one gave a digest with d leading zeros.
C14_SmallestNonceFromStart ==
    \A t \in Threads :
        (call[t].pc \in {"append", "returned"} /\ call[t].op \in {"add_block", "mine"}
            /\ call[t].d >= 0)
            => LET b == heap[call[t].blk]
               IN  /\ HashConsistent(b)
                   /\ \A n \in call[t].n0..b.minework :
                        /\ Fields(WithNonce(b, n)) \in DOMAIN oracle
                        /\ n < b.minework =>
                             ~LeadingZeros(oracle[Fields(WithNonce(b, n))], call[t].d)

----------------------------------------------------------------------------
(* C15 *)

\* C15: a step of mine_the_block changes nothing but the minework and hash
\* of the block it was called on.
C15_MiningFrame ==
    [][ \A t \in Threads :
          call[t].pc = "mine" =>
              /\ chain' = chain
              /\ difficulty' = difficulty
              /\ DOMAIN heap' = DOMAIN heap
              /\ \A o \in DOMAIN heap :
                   /\ o # call[t].blk => heap'[o] = heap[o]
                   /\ heap'[o].blknum = heap[o].blknum
                   /\ heap'[o].timestamp = heap[o].timestamp
                   /\ heap'[o].info = heap[o].info
                   /\ heap'[o].prevash = heap[o].prevash ]_vars

\* A search iterated on one block while the chain held another block.
C15_Witness ==
    \E t \in Threads :
        /\ call[t].op \in {"add_block", "mine"}
        /\ heap[call[t].blk].minework > call[t].n0
        /\ Len(chain) >= 2
        /\ Len(heap) >= 3

----------------------------------------------------------------------------
(* C16 *)

\* C16: add_block(c) first sets c.prevash to the hash of the block that is
\* last in the chain, then mines c, and only then appends c: the assignment
\* leaves the chain as it is, c is not in the chain while it is mined and
\* its prevash and the chain stay as they are during the search, and the
\* last step appends c and nothing else.
C16_AddBlockStepOrder ==
    [][ \A t \in Threads :
          /\ (call[t].pc = "idle" /\ call'[t].op = "add_block") =>
                /\ heap'[call'[t].blk].prevash = get_latest_block.hash
                /\ chain' = chain
          /\ (call[t].op = "add_block" /\ call[t].pc = "mine") =>
                /\ \A i \in 1..Len(chain) : chain[i] # call[t].blk
                /\ chain' = chain
                /\ heap'[call[t].blk].prevash = heap[call[t].blk].prevash
          /\ (call[t].op = "add_block" /\ call[t].pc = "append") =>
                /\ chain' = Append(chain, call[t].blk)
                /\ heap' = heap ]_vars

----------------------------------------------------------------------------
(* C17 *)

\* C17: when is_chain_valid() is True and the info, timestamp, minework or
\* prevash of the genesis block is overwritten, its stored hash left as it
\* was, is_chain_valid() is still True.
C17_GenesisExempt ==
    [][ (tamper = NoTamper /\ tamper'.kind # "none" /\ tamper'.pos = 0
            /\ is_chain_valid.result = TRUE)
          => /\ (is_chain_valid.result)' = TRUE
             /\ heap'[chain[1]].hash = heap[chain[1]].hash ]_vars

\* A chain of three blocks whose genesis block no longer hashes to its
\* stored hash was reported valid.
C17_Witness ==
    \E t \in Threads :
        /\ ValidReturned(t)
        /\ call[t].result = TRUE
        /\ tamper.kind # "none"
        /\ tamper.pos = 0
        /\ chain = <<1, 2, 3>>
        /\ ~HashConsistent(BlockAt(0))

----------------------------------------------------------------------------
(* C18 *)

\* C18: once a block that is neither the genesis block nor the last block
\* had its payload rewritten and its hash recomputed over the new fields,
\* its successor left as it was, is_chain_valid() returns False and the
\* successor's prevash differs from the block's hash.
C18_RehashTamperDetected ==
    \A t \in Threads :
        (ValidReturned(t) /\ tamper.kind = "rehash")
            => /\ call[t].result = FALSE
               /\ ~Linked(tamper.pos + 1)

\* The middle block of a chain of three distinct blocks was rewritten and
\* hashes to its stored hash again; the walk passed it and stopped at its
\* successor.
C18_Witness ==
    \E t \in Threads :
        /\ ValidReturned(t)
        /\ tamper = [kind |-> "rehash", pos |-> 1]
        /\ chain = <<1, 2, 3>>
        /\ HashConsistent(BlockAt(1))
        /\ Linked(1)
        /\ HashConsistent(BlockAt(2))
        /\ call[t].at = 2

----------------------------------------------------------------------------
(* C19 *)

\* C19: a mine_the_block(d) call made on a block right after a
\* mine_the_block(d) call returned on it finds the target met at its first
\* test, and returns without changing the block's minework or hash.
C19_MiningIdempotent ==
    /\ [](\A t \in Threads :
            (call[t].op = "remine" /\ call[t].pc = "mine")
                => TargetMet(heap[call[t].blk].hash, call[t].d))
    /\ [][ \A t \in Threads :
             (call[t].op = "remine" /\ call[t].pc = "mine")
                 => /\ heap' = heap
                    /\ call'[t].pc = "returned"
                    /\ call'[t].checks = 1 ]_vars

\* A second call returned on a block whose first call had iterated.
C19_Witness ==
    \E t \in Threads :
        /\ call[t].op = "remine"
        /\ call[t].pc = "returned"
        /\ call[t].d = Difficulty
        /\ heap[call[t].blk].minework > 0

----------------------------------------------------------------------------
(* C20 *)

\* C20: two add_block calls that read get_latest_block() at the same chain
\* length hold the same prevash in their candidates; and when a call
\* appends its candidate after another block was appended since it read
\* get_latest_block(), the candidate's prevash is the hash of the block that
\* was last at that time, the candidate is not linked to the block it is
\* appended behind, and is_chain_valid() is False.
C20_AddBlockNotAtomic ==
    /\ [](\A t, u \in Threads :
            (call[t].op = "add_block" /\ call[u].op = "add_block"
                /\ call[t].len0 = call[u].len0)
                => heap[call[t].blk].prevash = heap[call[u].blk].prevash)
    /\ [][ \A t \in Threads :
             (call[t].op = "add_block" /\ call[t].pc = "append"
                 /\ call'[t].pc = "idle" /\ Len(chain) > call[t].len0)
                 => /\ heap'[call[t].blk].prevash = heap'[chain[call[t].len0]].hash
                    /\ (~Linked(Len(chain) - 1))'
                    /\ (is_chain_valid.result)' = FALSE ]_vars

\* Two distinct blocks appended one after the other hold the same prevash.
C20_Witness ==
    /\ Len(chain) >= 3
    /\ chain[Len(chain)] # chain[Len(chain) - 1]
    /\ BlockAt(Len(chain) - 1).prevash = BlockAt(Len(chain) - 2).prevash
    /\ ~is_chain_valid.result

====
